---- MODULE Spec2Model ----
(***************************************************************************)
(* Orderly: scan -> categorize -> plan -> execute.                         *)
(* Strings are sequences of one-character strings, so that the regular-    *)
(* expression rewrites of NamingUtils and the path functions of node:path  *)
(* are computed character by character.  A path is a sequence of segments. *)
(***************************************************************************)
EXTENDS Integers, Sequences, FiniteSets, TLC

VARIABLES
    filename,      \* NamingUtils / FileCategorizer input: a file name
    convention,    \* NamingConvention {type, lowercase}
    converted,     \* results of successive applyNamingConvention calls
    extension,     \* FileCategorizer input: the extension passed in
    categories,    \* CategoryRule[] (config.categories)
    matched,       \* result of FileCategorizer.categorize
    targetDirectory, \* config.targetDirectory (Undefined when not set)
    dryRun,        \* config.dryRun, handed to the OperationExecutor
    logLevel,      \* Logger.logLevel
    logFile,       \* TRUE when the Logger has a log file
    logs,          \* Logger.logs
    fs,            \* the file system: [files : path -> content, dirs : set of paths]
    fs0,           \* the file system when execute was called
    fsCalls,       \* the FileSystemUtils calls made by execute, in order
    scanned,       \* ScannedFile[] returned by FileScanner.scan
    operations,    \* FileOperation[] handed to execute
    result,        \* the OrganizationResult being built
    idx,           \* executeReal: index of the next operation
    attempted,     \* indices of the operations handed to executeOperation, in order
    faulted,       \* TRUE once the environment has refused a call (EACCES, log append)
    generateManifest, \* config.generateManifest
    manifest,      \* the Manifest built by ManifestBuilder.build (Undefined before)
    saved,         \* the manifest files written, in order
    markdown,      \* the lines ManifestFormatter.format rendered (Undefined before)
    exitCode,      \* the code process.exit was called with (Undefined before)
    pc             \* position of the caller

pureVars == <<filename, convention, converted, extension, categories, matched>>
execVars == <<targetDirectory, dryRun, logLevel, logFile, logs, fs, fs0, fsCalls,
              scanned, operations, result, idx, attempted, faulted>>
cmdVars == <<generateManifest, manifest, saved, markdown, exitCode>>
vars == <<pureVars, execVars, cmdVars, pc>>

(***************************************************************************)
(* Bounds                                                                  *)
(***************************************************************************)
MaxLen == 3        \* longest file name drawn for the naming functions
MaxRules == 2      \* longest category list drawn for the categorizer
MaxOps == 2        \* longest operation list handed to execute directly
MaxFiles == 2      \* most files under the scanned directory

(***************************************************************************)
(* Characters                                                              *)
(***************************************************************************)
Lower == {"a", "b"}
Upper == {"A", "B"}
Digit == {"1"}
Space == {" "}
Chars == Lower \cup Upper \cup Digit \cup Space \cup {"-", "_", ".", "@"}

\* String.prototype.toLowerCase / toUpperCase on one character
LowerChar(c) == CASE c = "A" -> "a" [] c = "B" -> "b" [] OTHER -> c
UpperChar(c) == CASE c = "a" -> "A" [] c = "b" -> "B" [] OTHER -> c

toLowerCase(s) == [i \in 1..Len(s) |-> LowerChar(s[i])]

StringsUpTo(n) == UNION {[1..k -> Chars] : k \in 0..n}

(***************************************************************************)
(* node:path on a bare file name (no separator in it)                      *)
(***************************************************************************)
\* index of the last "." of s, 0 when there is none
LastDot(s) ==
    LET D == {i \in 1..Len(s) : s[i] = "."}
    IN  IF D = {} THEN 0 ELSE CHOOSE i \in D : \A j \in D : j <= i

\* mutant: a leading dot starts an extension too
extname_LeadingDot(s) ==
    LET d == LastDot(s)
    IN  IF d = 0 THEN <<>> ELSE SubSeq(s, d, Len(s))

\* path.extname: "" when there is no dot, when the only dot leads the name,
\* and for "..", else the suffix from the last dot on
extname(s) ==
    LET d == LastDot(s)
    IN  IF d <= 1 \/ s = <<".", ".">> THEN <<>> ELSE SubSeq(s, d, Len(s))

\* path.basename(s, ext): s without the suffix ext (ext is extname(s))
basenameNoExt(s, ext) ==
    IF Len(ext) > 0 /\ Len(ext) <= Len(s) THEN SubSeq(s, 1, Len(s) - Len(ext)) ELSE s

(***************************************************************************)
(* The regular-expression rewrites of NamingUtils                          *)
(***************************************************************************)
RECURSIVE InsertAtCaseBoundary(_, _)
\* .replaceAll(/([a-z])([A-Z])/g, '$1<sep>$2')
InsertAtCaseBoundary(s, sep) ==
    IF Len(s) < 2 THEN s
    ELSE IF s[1] \in Lower /\ s[2] \in Upper
         THEN <<s[1], sep>> \o InsertAtCaseBoundary(Tail(s), sep)
         ELSE <<s[1]>> \o InsertAtCaseBoundary(Tail(s), sep)

RECURSIVE DropRun(_, _)
\* s without its longest prefix made of characters of set
DropRun(s, set) ==
    IF s # <<>> /\ Head(s) \in set THEN DropRun(Tail(s), set) ELSE s

RECURSIVE CollapseRuns(_, _, _)
\* .replaceAll(/[<set>]+/g, sep)
CollapseRuns(s, set, sep) ==
    IF s = <<>> THEN <<>>
    ELSE IF Head(s) \in set
         THEN <<sep>> \o CollapseRuns(DropRun(s, set), set, sep)
         ELSE <<Head(s)>> \o CollapseRuns(Tail(s), set, sep)

\* .replaceAll(/[^<keep>]/g, '')
Strip(s, keep) == SelectSeq(s, LAMBDA c : c \in keep)

Separators == Space \cup {"-", "_"}

RECURSIVE CapitalizeAfterSeparators(_)
\* .replaceAll(/[-_\s]+(.)?/g, (_, char) => (char ? char.toUpperCase() : ''))
CapitalizeAfterSeparators(s) ==
    IF s = <<>> THEN <<>>
    ELSE IF Head(s) \in Separators
         THEN LET rest == DropRun(s, Separators)
              IN  IF rest = <<>> THEN <<>>
                  ELSE <<UpperChar(Head(rest))>> \o CapitalizeAfterSeparators(Tail(rest))
         ELSE <<Head(s)>> \o CapitalizeAfterSeparators(Tail(s))

toKebabCase(s) ==
    toLowerCase(Strip(CollapseRuns(InsertAtCaseBoundary(s, "-"), Space \cup {"_"}, "-"),
                      Lower \cup Upper \cup Digit \cup {"-"}))

toSnakeCase(s) ==
    toLowerCase(Strip(CollapseRuns(InsertAtCaseBoundary(s, "_"), Space \cup {"-"}, "_"),
                      Lower \cup Upper \cup Digit \cup {"_"}))

toCamelCase(s) == CapitalizeAfterSeparators(toLowerCase(s))

toPascalCase(s) ==
    LET c == CapitalizeAfterSeparators(toLowerCase(s))
    IN  IF c = <<>> THEN c ELSE <<UpperChar(Head(c))>> \o Tail(c)

ConventionTypes == {"kebab-case", "snake_case", "camelCase", "PascalCase"}
Conventions == [type : ConventionTypes, lowercase : BOOLEAN]

\* mutant: the lowercase flag is honoured for every convention type
applyNamingConvention_LowercaseAlways(f, c) ==
    LET ext            == extname(f)
        nameWithoutExt == basenameNoExt(f, ext)
        convertedName  ==
            CASE c.type = "kebab-case" -> toKebabCase(nameWithoutExt)
              [] c.type = "snake_case" -> toSnakeCase(nameWithoutExt)
              [] c.type = "camelCase"  -> toCamelCase(nameWithoutExt)
              [] c.type = "PascalCase" -> toPascalCase(nameWithoutExt)
              [] OTHER                 -> nameWithoutExt
        lowered        ==
            IF c.lowercase THEN toLowerCase(convertedName) ELSE convertedName
    IN  lowered \o toLowerCase(ext)

applyNamingConvention(f, c) ==
    LET ext            == extname(f)
        nameWithoutExt == basenameNoExt(f, ext)
        convertedName  ==
            CASE c.type = "kebab-case" -> toKebabCase(nameWithoutExt)
              [] c.type = "snake_case" -> toSnakeCase(nameWithoutExt)
              [] c.type = "camelCase"  -> toCamelCase(nameWithoutExt)
              [] c.type = "PascalCase" -> toPascalCase(nameWithoutExt)
              [] OTHER                 -> nameWithoutExt
        lowered        ==
            IF c.lowercase /\ c.type # "camelCase" /\ c.type # "PascalCase"
            THEN toLowerCase(convertedName) ELSE convertedName
    IN  lowered \o toLowerCase(ext)

needsRename(f, c) == f # applyNamingConvention(f, c)

\* the convention held while no naming is going on
NoConvention == [type |-> "kebab-case", lowercase |-> FALSE]

(***************************************************************************)
(* FileCategorizer                                                         *)
(***************************************************************************)
\* an optional value is a sequence of at most one element: undefined is the
\* empty one, a defined value v is <<v>>
Undefined == <<>>
Defined(v) == <<v>>
ValueOf(o) == o[1]

RECURSIVE GlobMatch(_, _)
\* one glob of micromatch: "*" is any run of characters other than "/",
\* every other character stands for itself
GlobMatch(s, p) ==
    IF p = <<>> THEN s = <<>>
    ELSE IF Head(p) = "*"
         THEN \/ GlobMatch(s, Tail(p))
              \/ s # <<>> /\ Head(s) # "/" /\ GlobMatch(Tail(s), p)
         ELSE s # <<>> /\ Head(s) = Head(p) /\ GlobMatch(Tail(s), Tail(p))

\* micromatch.isMatch(str, patterns): some pattern of the list matches
isMatch(s, patterns) == \E p \in patterns : GlobMatch(s, p)

\* mutant: the patterns of the rule are not consulted
matchesCategory_ExtensionOnly(ext, f, category) == ext \in category.extensions

matchesCategory(ext, f, category) ==
    IF ext \notin category.extensions THEN FALSE
    ELSE IF category.patterns # Undefined THEN isMatch(f, ValueOf(category.patterns))
    ELSE TRUE

RECURSIVE categorize(_, _, _)
\* the for-loop over categories, returning at the first match
categorize(ext, f, cats) ==
    IF cats = <<>> THEN Undefined
    ELSE IF matchesCategory(ext, f, Head(cats)) THEN Defined(Head(cats))
    ELSE categorize(ext, f, Tail(cats))

\* the inputs drawn for the categorizer
CatExtensions == {<<".", "a">>, <<".", "A">>, <<".", "b">>}
CatPatterns   == {<<"a", "*">>, <<"*", "1", "*">>}
CatFilenames  == {<<"a", "1", ".", "a">>, <<"b", ".", "a">>, <<"a", ".", "A">>,
                  <<"b", "1", ".", "b">>}
CatRules ==
    {[name |-> n, extensions |-> e, patterns |-> p,
      targetFolder |-> IF n = "first" THEN Undefined ELSE Defined(<<<<"b">>>>)] :
        n \in {"first", "second"},
        e \in {{<<".", "a">>}, {<<".", "A">>}, {<<".", "a">>, <<".", "b">>}},
        p \in {Undefined, Defined({}), Defined({<<"a", "*">>}), Defined(CatPatterns)}}
RuleLists(n) == UNION {[1..k -> CatRules] : k \in 0..n}

(***************************************************************************)
(* node:path on paths: a path is the sequence of its segments              *)
(***************************************************************************)
dirname(p) == IF p = <<>> THEN <<>> ELSE SubSeq(p, 1, Len(p) - 1)
basename(p) == IF p = <<>> THEN <<>> ELSE p[Len(p)]

RECURSIVE NormalizeOnto(_, _)
NormalizeOnto(acc, rest) ==
    IF rest = <<>> THEN acc
    ELSE LET h == Head(rest)
         IN  IF h = <<>> \/ h = <<".">> THEN NormalizeOnto(acc, Tail(rest))
             ELSE IF h = <<".", ".">> THEN NormalizeOnto(dirname(acc), Tail(rest))
             ELSE NormalizeOnto(Append(acc, h), Tail(rest))

\* path.normalize of an absolute path: "", "." and ".." segments resolved
normalize(p) == NormalizeOnto(<<>>, p)

\* path.join
join(a, b) == normalize(a \o b)

Prefixes(p) == {SubSeq(p, 1, k) : k \in 0..Len(p)}

(***************************************************************************)
(* FileSystemUtils over the file system f = [files, dirs]                  *)
(***************************************************************************)
Faults == {"none", "mkdir", "rename"}   \* the call the environment refuses (EACCES)

existsSync(f, p) == p \in DOMAIN f.files \/ p \in f.dirs

\* check-then-create, recursive
mkdirSync(f, dir, fault) ==
    IF existsSync(f, dir) THEN [threw |-> FALSE, error |-> "", fs |-> f]
    ELSE IF fault = "mkdir" THEN [threw |-> TRUE, error |-> "EACCES", fs |-> f]
    ELSE IF \E q \in Prefixes(dir) : q \in DOMAIN f.files
         THEN [threw |-> TRUE, error |-> "ENOTDIR", fs |-> f]
    ELSE [threw |-> FALSE, error |-> "", fs |-> [f EXCEPT !.dirs = @ \cup Prefixes(dir)]]

\* mutant: a refused rename has already moved the file when it throws
renameSync_MovesThenThrows(f, oldPath, newPath, fault) ==
    IF oldPath \notin DOMAIN f.files THEN [threw |-> TRUE, error |-> "ENOENT", fs |-> f]
    ELSE IF oldPath = newPath THEN [threw |-> FALSE, error |-> "", fs |-> f]
    ELSE IF dirname(newPath) \notin f.dirs
         THEN [threw |-> TRUE, error |-> "ENOTDIR", fs |-> f]
    ELSE IF newPath \in f.dirs THEN [threw |-> TRUE, error |-> "EISDIR", fs |-> f]
    ELSE [threw |-> fault = "rename", error |-> IF fault = "rename" THEN "EACCES" ELSE "",
          fs |-> [f EXCEPT !.files =
                     [q \in (DOMAIN f.files \ {oldPath}) \cup {newPath} |->
                         IF q = newPath THEN f.files[oldPath] ELSE f.files[q]]]]

\* fs.renameSync of a file: replaces whatever file is at newPath; renaming an
\* existing file to itself does nothing and returns
renameSync(f, oldPath, newPath, fault) ==
    IF oldPath \notin DOMAIN f.files THEN [threw |-> TRUE, error |-> "ENOENT", fs |-> f]
    ELSE IF oldPath = newPath THEN [threw |-> FALSE, error |-> "", fs |-> f]
    ELSE IF dirname(newPath) \notin f.dirs
         THEN [threw |-> TRUE, error |-> "ENOTDIR", fs |-> f]
    ELSE IF fault = "rename" THEN [threw |-> TRUE, error |-> "EACCES", fs |-> f]
    ELSE IF newPath \in f.dirs THEN [threw |-> TRUE, error |-> "EISDIR", fs |-> f]
    ELSE [threw |-> FALSE, error |-> "",
          fs |-> [f EXCEPT !.files =
                     [q \in (DOMAIN f.files \ {oldPath}) \cup {newPath} |->
                         IF q = newPath THEN f.files[oldPath] ELSE f.files[q]]]]

(***************************************************************************)
(* Logger                                                                  *)
(***************************************************************************)
levelPriority == [debug |-> 0, info |-> 1, warn |-> 2, error |-> 3]

shouldLog(level, configuredLevel) == levelPriority[level] >= levelPriority[configuredLevel]

\* Logger.log: the entry is pushed, then appended to the log file; the append
\* throws when the environment refuses it
LoggerLog(lg, level, message, appendFails) ==
    IF ~shouldLog(level, logLevel) THEN [logs |-> lg, threw |-> FALSE]
    ELSE [logs |-> Append(lg, [level |-> level, message |-> message]),
          threw |-> logFile /\ appendFails]

(***************************************************************************)
(* OperationExecutor                                                       *)
(***************************************************************************)
AlreadyExists == "Target file already exists"

createEmptyResult(ops) == [operations |-> ops, successful |-> 0, failed |-> 0, errors |-> <<>>]

\* mutant: the rename is issued without looking at the destination
performOperation_NoGuard(f, op, fault) ==
    LET targetDir == dirname(op.newPath)
        m  == mkdirSync(f, targetDir, fault)
        c1 == <<[call |-> "mkdirSync", args |-> <<targetDir>>]>>
        c3 == Append(c1, [call |-> "renameSync", args |-> <<op.originalPath, op.newPath>>])
    IN  IF m.threw THEN [ok |-> FALSE, error |-> m.error, fs |-> m.fs, calls |-> c1]
        ELSE LET r == renameSync(m.fs, op.originalPath, op.newPath, fault)
             IN  [ok |-> ~r.threw, error |-> r.error, fs |-> r.fs, calls |-> c3]

\* mutant: the guard rejects every destination that exists, the source included
performOperation_GuardIgnoresSource(f, op, fault) ==
    LET targetDir == dirname(op.newPath)
        m  == mkdirSync(f, targetDir, fault)
        c1 == <<[call |-> "mkdirSync", args |-> <<targetDir>>]>>
        c2 == Append(c1, [call |-> "existsSync", args |-> <<op.newPath>>])
        c3 == Append(c2, [call |-> "renameSync", args |-> <<op.originalPath, op.newPath>>])
    IN  IF m.threw THEN [ok |-> FALSE, error |-> m.error, fs |-> m.fs, calls |-> c1]
        ELSE IF existsSync(m.fs, op.newPath)
             THEN [ok |-> FALSE, error |-> AlreadyExists, fs |-> m.fs, calls |-> c2]
        ELSE LET r == renameSync(m.fs, op.originalPath, op.newPath, fault)
             IN  [ok |-> ~r.threw, error |-> r.error, fs |-> r.fs, calls |-> c3]

\* the outcome of performOperation: ok, or the error thrown; the file system
\* it leaves and the FileSystemUtils calls it made
performOperation(f, op, fault) ==
    LET targetDir == dirname(op.newPath)
        m  == mkdirSync(f, targetDir, fault)
        c1 == <<[call |-> "mkdirSync", args |-> <<targetDir>>]>>
        c2 == Append(c1, [call |-> "existsSync", args |-> <<op.newPath>>])
        c3 == Append(c2, [call |-> "renameSync", args |-> <<op.originalPath, op.newPath>>])
    IN  IF m.threw THEN [ok |-> FALSE, error |-> m.error, fs |-> m.fs, calls |-> c1]
        ELSE IF existsSync(m.fs, op.newPath) /\ op.newPath # op.originalPath
             THEN [ok |-> FALSE, error |-> AlreadyExists, fs |-> m.fs, calls |-> c2]
        ELSE LET r == renameSync(m.fs, op.originalPath, op.newPath, fault)
             IN  [ok |-> ~r.threw, error |-> r.error, fs |-> r.fs, calls |-> c3]

handleOperationError(op, error, res, lg, errorFails) ==
    LET l == LoggerLog(lg, "error", <<"Failed to process", op.originalPath>>, errorFails)
    IN  [result |-> [res EXCEPT !.failed = @ + 1,
                                !.errors = Append(@, [file |-> op.originalPath,
                                                      error |-> error])],
         logs |-> l.logs, threw |-> l.threw]

\* executeOperation: try { performOperation; successful++; logger.info }
\* catch { handleOperationError }; threw is an exception leaving the catch
executeOperation(f, op, res, lg, fault, infoFails, errorFails) ==
    LET p == performOperation(f, op, fault)
    IN  IF p.ok
        THEN LET r1 == [res EXCEPT !.successful = @ + 1]
                 l  == LoggerLog(lg, "info", <<"ok", op.originalPath>>, infoFails)
             IN  IF l.threw
                 THEN handleOperationError(op, "log append failed", r1, l.logs, errorFails)
                          @@ [fs |-> p.fs, calls |-> p.calls, refused |-> TRUE]
                 ELSE [result |-> r1, logs |-> l.logs, threw |-> FALSE,
                       fs |-> p.fs, calls |-> p.calls, refused |-> FALSE]
        ELSE LET h == handleOperationError(op, p.error, res, lg, errorFails)
             IN  h @@ [fs |-> p.fs, calls |-> p.calls,
                       refused |-> (p.error = "EACCES" \/ h.threw)]

RECURSIVE executeReal(_, _, _, _)
\* the loop of executeReal run to its end in an environment that refuses
\* nothing: the result, the log and the file system it leaves
executeReal(f, ops, res, lg) ==
    IF ops = <<>> THEN [result |-> res, logs |-> lg, fs |-> f]
    ELSE LET e == executeOperation(f, Head(ops), res, lg, "none", FALSE, FALSE)
         IN  executeReal(e.fs, Tail(ops), e.result, e.logs)

RECURSIVE LogAll(_, _, _)
\* logger.info for the header and each operation in turn; failAt is the call
\* whose append the environment refuses (0: none)
LogAll(lg, messages, failAt) ==
    IF messages = <<>> THEN [logs |-> lg, threw |-> FALSE]
    ELSE LET l == LoggerLog(lg, "info", Head(messages), failAt = 1)
         IN  IF l.threw THEN l ELSE LogAll(l.logs, Tail(messages), failAt - 1)

executeDryRun(ops, res, lg, failAt) ==
    LET l == LogAll(lg, <<"DRY RUN: No files will be modified">> \o
                        [i \in 1..Len(ops) |-> <<"[DRY RUN]", ops[i].type,
                                                 ops[i].originalPath, ops[i].newPath>>],
                    failAt)
    IN  [result |-> IF l.threw THEN res ELSE [res EXCEPT !.successful = Len(ops)],
         logs |-> l.logs, threw |-> l.threw]

\* state of the executor while nothing has been handed to it
ExecIdle ==
    /\ targetDirectory = Undefined
    /\ dryRun = FALSE
    /\ logLevel = "info"
    /\ logFile = FALSE
    /\ logs = <<>>
    /\ fs = [files |-> <<>>, dirs |-> {<<>>}]
    /\ fs0 = fs
    /\ fsCalls = <<>>
    /\ scanned = <<>>
    /\ operations = <<>>
    /\ result = createEmptyResult(<<>>)
    /\ idx = 0
    /\ attempted = <<>>
    /\ faulted = FALSE

\* state of the command while no manifest has been asked for
CmdIdle ==
    /\ generateManifest = FALSE
    /\ manifest = Undefined
    /\ saved = <<>>
    /\ markdown = Undefined
    /\ exitCode = Undefined

\* mutant: the dry-run branch is missing, every call enters executeReal
Execute_NoDryRunBranch ==
    /\ pc = "planned"
    /\ fs0' = fs
    /\ result' = createEmptyResult(operations)
    /\ idx' = 1
    /\ pc' = "executing"
    /\ UNCHANGED <<cmdVars, pureVars, targetDirectory, dryRun, logLevel, logFile, logs, fs, fsCalls,
                   scanned, operations, attempted, faulted>>

\* execute(operations): the dry run is done in the call; the real run enters
\* the loop of executeReal
Execute ==
    /\ pc = "planned"
    /\ fs0' = fs
    /\ IF dryRun
       THEN \E failAt \in 0..(Len(operations) + 1) :
                LET d == executeDryRun(operations, createEmptyResult(operations), logs, failAt)
                IN  /\ result' = d.result
                    /\ logs' = d.logs
                    /\ pc' = IF d.threw THEN "threw" ELSE "done"
                    /\ faulted' = (faulted \/ d.threw)
                    /\ idx' = idx
       ELSE /\ result' = createEmptyResult(operations)
            /\ idx' = 1
            /\ pc' = "executing"
            /\ UNCHANGED <<logs, faulted>>
    /\ UNCHANGED <<cmdVars, pureVars, targetDirectory, dryRun, logLevel, logFile, fs, fsCalls,
                   scanned, operations, attempted>>

\* one iteration of the loop of executeReal
ExecuteOperation ==
    /\ pc = "executing"
    /\ idx <= Len(operations)
    /\ \E fault \in Faults, infoFails \in BOOLEAN, errorFails \in BOOLEAN :
          LET e == executeOperation(fs, operations[idx], result, logs,
                                    fault, infoFails, errorFails)
          IN  /\ fs' = e.fs
              /\ result' = e.result
              /\ logs' = e.logs
              /\ fsCalls' = fsCalls \o e.calls
              /\ faulted' = (faulted \/ e.refused)
              /\ pc' = IF e.threw THEN "threw" ELSE "executing"
    /\ attempted' = Append(attempted, idx)
    /\ idx' = idx + 1
    /\ UNCHANGED <<cmdVars, pureVars, targetDirectory, dryRun, logLevel, logFile, fs0,
                   scanned, operations>>

\* executeReal returns the result after the last operation
ExecuteReturn ==
    /\ pc = "executing"
    /\ idx > Len(operations)
    /\ pc' = "done"
    /\ UNCHANGED <<cmdVars, pureVars, execVars>>

(***************************************************************************)
(* execute called on an arbitrary operation list and file system           *)
(***************************************************************************)
ExecDirS == << <<"s">> >>
ExecDirT == << <<"t">> >>
ExecPaths == {Append(ExecDirS, <<"x">>), Append(ExecDirS, <<"y">>), Append(ExecDirT, <<"x">>)}
ExecOps ==
    {[type |-> "move", originalPath |-> a, newPath |-> b, reason |-> <<"Moving">>] :
        a \in ExecPaths, b \in ExecPaths}
OpLists(n) == UNION {[1..k -> ExecOps] : k \in 0..n}

\* the file systems execute may start from: any files among ExecPaths, each
\* holding its own content; the directory t present, absent, or a file
ExecFileSystems ==
    {[files |-> [q \in F \cup (IF tKind = "file" THEN {ExecDirT} ELSE {}) |-> q],
      dirs  |-> {<<>>, ExecDirS} \cup (IF tKind = "dir" THEN {ExecDirT} ELSE {})] :
        F \in SUBSET ExecPaths, tKind \in {"dir", "absent", "file"}}

WellFormedFs(f) ==
    /\ \A q \in DOMAIN f.files : dirname(q) \in f.dirs
    /\ DOMAIN f.files \cap f.dirs = {}

\* new Logger(logLevel, logFile?)
LoggerConfigs == {<<"info", FALSE>>, <<"info", TRUE>>, <<"error", TRUE>>}

InitExec ==
    /\ filename = <<>>
    /\ convention = NoConvention
    /\ converted = <<>>
    /\ extension = <<>>
    /\ categories = <<>>
    /\ matched = Undefined
    /\ targetDirectory = Undefined
    /\ dryRun \in BOOLEAN
    /\ \E lc \in LoggerConfigs : logLevel = lc[1] /\ logFile = lc[2]
    /\ logs = <<>>
    /\ fs \in {f \in ExecFileSystems : WellFormedFs(f)}
    /\ fs0 = fs
    /\ fsCalls = <<>>
    /\ scanned = <<>>
    /\ operations \in OpLists(MaxOps)
    /\ result = createEmptyResult(<<>>)
    /\ idx = 0
    /\ attempted = <<>>
    /\ faulted = FALSE
    /\ CmdIdle
    /\ pc = "planned"

NextExec == Execute \/ ExecuteOperation \/ ExecuteReturn
SpecExec == InitExec /\ [][NextExec]_vars

(***************************************************************************)
(* FileScanner                                                             *)
(***************************************************************************)
BaseDirectory == << <<"d">> >>       \* path.resolve(directory)

RECURSIVE PathString(_)
\* a relative path as the string glob returns: segments joined by "/"
PathString(p) ==
    IF p = <<>> THEN <<>>
    ELSE IF Len(p) = 1 THEN p[1]
    ELSE p[1] \o <<"/">> \o PathString(Tail(p))

\* glob('**/[!.]*', {cwd: directory, nodir: true}): the files below directory,
\* as paths relative to it (no hidden file is drawn, excludePatterns is empty)
findFiles(f, directory) ==
    {SubSeq(q, Len(directory) + 1, Len(q)) :
        q \in {r \in DOMAIN f.files :
                 Len(r) > Len(directory) /\ SubSeq(r, 1, Len(directory)) = directory}}

processFile(directory, file) ==
    LET ext      == toLowerCase(extname(basename(file)))
        category == categorize(ext, PathString(file), categories)
    IN  [originalPath |-> join(directory, file),
         filename     |-> basename(file),
         extension    |-> ext,
         category     |-> IF category = Undefined THEN Undefined
                          ELSE Defined(ValueOf(category).name),
         targetFolder |-> IF category = Undefined THEN Undefined
                          ELSE ValueOf(category).targetFolder]

(***************************************************************************)
(* OperationPlanner                                                        *)
(***************************************************************************)
Null == <<>>

calculateTargets(file) ==
    LET originalDir == dirname(file.originalPath)
    IN  [targetDir |->
            IF file.targetFolder # Undefined /\ ValueOf(file.targetFolder) # <<>>
            THEN IF targetDirectory # Undefined
                 THEN join(ValueOf(targetDirectory), ValueOf(file.targetFolder))
                 ELSE join(BaseDirectory, ValueOf(file.targetFolder))
            ELSE originalDir,
         targetFilename |->
            IF needsRename(file.filename, convention)
            THEN applyNamingConvention(file.filename, convention)
            ELSE file.filename]

createOperation(file, targetFilename, newPath) ==
    LET needsMove == file.targetFolder # Undefined
        renamed   == file.filename # targetFilename
    IN  [type |-> IF needsMove /\ renamed THEN "move-rename"
                  ELSE IF needsMove THEN "move"
                  ELSE "rename",
         originalPath |-> file.originalPath,
         newPath |-> newPath,
         reason |-> IF needsMove /\ renamed
                    THEN <<"Moving to", ValueOf(file.targetFolder), "and renaming to",
                           targetFilename>>
                    ELSE IF needsMove THEN <<"Moving to", ValueOf(file.targetFolder)>>
                    ELSE <<"Renaming to", targetFilename>>]

\* mutant: the comparison of the new path with the original path is missing
planFileOperation_NoSkip(file) ==
    LET t == calculateTargets(file)
    IN  Defined(createOperation(file, t.targetFilename, join(t.targetDir, <<t.targetFilename>>)))

planFileOperation(file) ==
    LET t       == calculateTargets(file)
        newPath == join(t.targetDir, <<t.targetFilename>>)
    IN  IF normalize(newPath) = normalize(file.originalPath) THEN Null
        ELSE Defined(createOperation(file, t.targetFilename, newPath))

RECURSIVE PlanOnto(_, _)
PlanOnto(ops, files) ==
    IF files = <<>> THEN ops
    ELSE LET operation == planFileOperation(Head(files))
         IN  IF operation # Null
                /\ \A i \in 1..Len(ops) : ops[i].newPath # ValueOf(operation).newPath
             THEN PlanOnto(Append(ops, ValueOf(operation)), Tail(files))
             ELSE PlanOnto(ops, Tail(files))

\* mutant: a file whose destination is already planned gets no operation
plan_SkipTakenDestinations(files) == PlanOnto(<<>>, files)

RECURSIVE plan(_)
plan(files) ==
    IF files = <<>> THEN <<>>
    ELSE LET operation == planFileOperation(Head(files))
         IN  IF operation # Null THEN <<ValueOf(operation)>> \o plan(Tail(files))
             ELSE plan(Tail(files))

(***************************************************************************)
(* ManifestBuilder                                                         *)
(***************************************************************************)
\* the successive readings of the clock (new Date()) during a call, counted
\* from the first one: time does not go back between two readings
ClockReadings == {<<1, 1>>, <<1, 2>>}

\* mutant: no error is ever found for a path
findError_NeverFound(errors, path) == Undefined

\* errors.find(e => e.file === path): the first error recorded for the path
findError(errors, path) ==
    LET M == {k \in 1..Len(errors) : errors[k].file = path}
    IN  IF M = {} THEN Undefined
        ELSE Defined(errors[CHOOSE k \in M : \A j \in M : k <= j])

\* mutant: only the operations that failed get an entry
buildEntries_OnlyFailures(ops, errors, timestamp) ==
    LET all == [i \in 1..Len(ops) |->
                  LET error == findError(errors, ops[i].originalPath)
                  IN  [timestamp |-> timestamp, operation |-> ops[i],
                       status |-> IF error # Undefined THEN "failed" ELSE "success",
                       error |-> IF error # Undefined THEN Defined(ValueOf(error).error)
                                 ELSE Undefined]]
    IN  SelectSeq(all, LAMBDA e : e.status = "failed")

\* operations.map(operation => ({timestamp, operation, status, error}))
buildEntries(ops, errors, timestamp) ==
    [i \in 1..Len(ops) |->
        LET error == findError(errors, ops[i].originalPath)
        IN  [timestamp |-> timestamp, operation |-> ops[i],
             status |-> IF error # Undefined THEN "failed" ELSE "success",
             error |-> IF error # Undefined THEN Defined(ValueOf(error).error)
                       ELSE Undefined]]

\* mutant: generatedAt comes from a second reading of the clock
build_ReadsClockTwice(res, errors, clock) ==
    [generatedAt |-> clock[2],
     totalOperations |-> Len(res.operations),
     successful |-> res.successful,
     failed |-> res.failed,
     entries |-> buildEntries(res.operations, errors, clock[1])]

\* ManifestBuilder.build: the clock is read once
build(res, errors, clock) ==
    LET timestamp == clock[1]
    IN  [generatedAt |-> timestamp,
         totalOperations |-> Len(res.operations),
         successful |-> res.successful,
         failed |-> res.failed,
         entries |-> buildEntries(res.operations, errors, timestamp)]

(***************************************************************************)
(* The organize command: scan, plan, execute                               *)
(***************************************************************************)
Folder == <<"f">>
OutputDirectory == << <<"o">> >>     \* --output

PipeNames == {<<"a", ".", "a">>, <<"A", ".", "a">>, <<"A", ".", "b">>}
PipeDirs  == {BaseDirectory, Append(BaseDirectory, Folder), Append(BaseDirectory, <<"s">>)}
\* the files the scanned directory may hold
PipePaths == {Append(dir, n) : dir \in PipeDirs, n \in PipeNames}
\* a file outside the scanned directory, where --output would put "a.a"
Unrelated == OutputDirectory \o <<Folder, <<"a", ".", "a">> >>

PipeConventions ==
    {[type |-> "kebab-case", lowercase |-> TRUE],
     [type |-> "PascalCase", lowercase |-> FALSE]}

\* createLogger(logLevel): the command always logs to .orderly/orderly.log
PipeLoggerConfigs == {<<"info", TRUE>>}

PipeCategoryLists ==
    {<<[name |-> "images", extensions |-> {<<".", "a">>}, patterns |-> Undefined,
        targetFolder |-> Defined(<<Folder>>)]>>,
     <<[name |-> "reports", extensions |-> {<<".", "a">>}, patterns |-> Defined({<<"a", "*">>}),
        targetFolder |-> Defined(<<Folder>>)]>>,
     <<[name |-> "images", extensions |-> {<<".", "a">>}, patterns |-> Undefined,
        targetFolder |-> Defined(<<<<".">>, Folder>>)]>>,
     <<[name |-> "loose", extensions |-> {<<".", "a">>}, patterns |-> Undefined,
        targetFolder |-> Defined(<<>>)]>>}

PipeFileSystems ==
    {[files |-> [q \in F \cup U |-> q],
      dirs  |-> UNION {Prefixes(dirname(q)) : q \in F \cup U} \cup Prefixes(BaseDirectory)] :
        F \in {G \in SUBSET PipePaths : Cardinality(G) <= MaxFiles},
        U \in SUBSET {Unrelated}}

Orderings(S) ==
    {g \in [1..Cardinality(S) -> S] : \A i, j \in 1..Cardinality(S) : g[i] = g[j] => i = j}

InitPipe ==
    /\ filename = <<>>
    /\ converted = <<>>
    /\ extension = <<>>
    /\ matched = Undefined
    /\ convention \in PipeConventions
    /\ categories \in PipeCategoryLists
    /\ targetDirectory \in {Undefined, Defined(OutputDirectory)}
    /\ dryRun \in BOOLEAN
    /\ \E lc \in PipeLoggerConfigs : logLevel = lc[1] /\ logFile = lc[2]
    /\ logs = <<>>
    /\ fs \in PipeFileSystems
    /\ fs0 = fs
    /\ fsCalls = <<>>
    /\ scanned = <<>>
    /\ operations = <<>>
    /\ result = createEmptyResult(<<>>)
    /\ idx = 0
    /\ attempted = <<>>
    /\ faulted = FALSE
    /\ CmdIdle
    /\ pc = "start"

\* FileScanner.scan(directory): logs, globs (the files come in some order),
\* processes each file and logs again; a refused log append leaves the command
Scan ==
    /\ pc = "start"
    /\ \E order \in Orderings(findFiles(fs, BaseDirectory)), failAt \in 0..2 :
          LET files == [i \in 1..Len(order) |-> processFile(BaseDirectory, order[i])]
              l     == LogAll(logs, <<<<"Scanning directory", BaseDirectory>>,
                                      <<"Scanned files", Len(files)>>>>, failAt)
          IN  /\ logs' = l.logs
              /\ faulted' = (faulted \/ l.threw)
              /\ scanned' = IF l.threw THEN scanned ELSE files
              /\ pc' = IF l.threw THEN "aborted"
                       ELSE IF files = <<>> THEN "exit" ELSE "scanned"
    /\ UNCHANGED <<cmdVars, pureVars, targetDirectory, dryRun, logLevel, logFile, fs, fs0,
                   fsCalls, operations, result, idx, attempted>>

\* mutant: only the first scanned file is planned
Plan_FirstFileOnly ==
    /\ pc = "scanned"
    /\ \E failAt \in 0..1 :
          LET ops == plan(<<Head(scanned)>>)
              l   == LogAll(logs, <<<<"Planned operations", Len(ops)>>>>, failAt)
          IN  /\ logs' = l.logs
              /\ faulted' = (faulted \/ l.threw)
              /\ operations' = IF l.threw THEN operations ELSE ops
              /\ pc' = IF l.threw THEN "aborted"
                       ELSE IF ops = <<>> THEN "exit" ELSE "planned"
    /\ UNCHANGED <<cmdVars, pureVars, targetDirectory, dryRun, logLevel, logFile, fs, fs0,
                   fsCalls, scanned, result, idx, attempted>>

\* FileOrganizer.planOperations(files): plans and logs the number of
\* operations; the command returns when nothing is planned
Plan ==
    /\ pc = "scanned"
    /\ \E failAt \in 0..1 :
          LET ops == plan(scanned)
              l   == LogAll(logs, <<<<"Planned operations", Len(ops)>>>>, failAt)
          IN  /\ logs' = l.logs
              /\ faulted' = (faulted \/ l.threw)
              /\ operations' = IF l.threw THEN operations ELSE ops
              /\ pc' = IF l.threw THEN "aborted"
                       ELSE IF ops = <<>> THEN "exit" ELSE "planned"
    /\ UNCHANGED <<cmdVars, pureVars, targetDirectory, dryRun, logLevel, logFile, fs, fs0,
                   fsCalls, scanned, result, idx, attempted>>

(***************************************************************************)
(* ManifestFormatter: the Markdown rendering, as its lines                 *)
(***************************************************************************)
\* entry.operation.type.toUpperCase()
toUpperCase(type) ==
    CASE type = "move" -> "MOVE"
      [] type = "rename" -> "RENAME"
      [] type = "move-rename" -> "MOVE-RENAME"
      [] OTHER -> type

\* mutant: every entry is rendered with the success marker
statusMarker_AlwaysSuccess(status) == "U+2713"

\* entry.status === OperationStatus.SUCCESS ? check mark : ballot x, each
\* written here by its code point
statusMarker(status) == IF status = "success" THEN "U+2713" ELSE "U+2717"

\* the lines of one entry: heading, From, To, Reason, the Error line when
\* entry.error is truthy, and a blank line
formatEntry(entry) ==
    <<[kind |-> "heading", marker |-> statusMarker(entry.status),
       text |-> <<toUpperCase(entry.operation.type)>>],
      [kind |-> "from", marker |-> "", text |-> <<entry.operation.originalPath>>],
      [kind |-> "to", marker |-> "", text |-> <<entry.operation.newPath>>],
      [kind |-> "reason", marker |-> "", text |-> <<entry.operation.reason>>]>>
    \o (IF entry.error # Undefined /\ ValueOf(entry.error) # ""
        THEN <<[kind |-> "error", marker |-> "", text |-> <<ValueOf(entry.error)>>]>>
        ELSE <<>>)
    \o <<[kind |-> "blank", marker |-> "", text |-> <<>>]>>

RECURSIVE formatEntries(_)
formatEntries(entries) ==
    IF entries = <<>> THEN <<>>
    ELSE formatEntry(Head(entries)) \o formatEntries(Tail(entries))

\* the header lines, then '## Operations' and the entries when there are any
format(m) ==
    <<[kind |-> "title", marker |-> "", text |-> <<>>],
      [kind |-> "generated", marker |-> "", text |-> <<m.generatedAt>>],
      [kind |-> "total", marker |-> "", text |-> <<m.totalOperations>>],
      [kind |-> "successful", marker |-> "", text |-> <<m.successful>>],
      [kind |-> "failed", marker |-> "", text |-> <<m.failed>>]>>
    \o (IF Len(m.entries) > 0
        THEN <<[kind |-> "operations", marker |-> "", text |-> <<>>]>>
             \o formatEntries(m.entries)
        ELSE <<>>)

(***************************************************************************)
(* The organize command to its exit: results, manifests, exit code         *)
(***************************************************************************)
\* what the command does once executeOperations has returned: logResults,
\* then saveManifests when a manifest is wanted (save, saveMarkdown, each a
\* write followed by a log line)
CompletionSteps(res, wanted) ==
    <<[kind |-> "log", level |-> "info", what |-> "=========="],
      [kind |-> "log", level |-> "info", what |-> "Completed"]>>
    \o (IF res.failed > 0
        THEN <<[kind |-> "log", level |-> "error", what |-> "Failed"]>> ELSE <<>>)
    \o (IF wanted
        THEN <<[kind |-> "write", level |-> "", what |-> "manifest.json"],
               [kind |-> "log", level |-> "info", what |-> "Manifest saved to"],
               [kind |-> "write", level |-> "", what |-> "manifest.md"],
               [kind |-> "log", level |-> "info", what |-> "Markdown manifest saved to"],
               [kind |-> "log", level |-> "info", what |-> "Manifest files created in"]>>
        ELSE <<>>)

RECURSIVE RunSteps(_, _, _, _)
\* the steps in turn, up to the one the environment refuses (failAt; 0: none):
\* a log step appends to the log file, a write step writes a manifest file
RunSteps(steps, lg, sv, failAt) ==
    IF steps = <<>> THEN [logs |-> lg, saved |-> sv, threw |-> FALSE]
    ELSE LET st == Head(steps)
         IN  IF st.kind = "log"
             THEN LET l == LoggerLog(lg, st.level, st.what, failAt = 1)
                  IN  IF l.threw THEN [logs |-> l.logs, saved |-> sv, threw |-> TRUE]
                      ELSE RunSteps(Tail(steps), l.logs, sv, failAt - 1)
             ELSE IF failAt = 1 THEN [logs |-> lg, saved |-> sv, threw |-> TRUE]
             ELSE RunSteps(Tail(steps), lg, Append(sv, st.what), failAt - 1)

\* the organize action after executeOperations: logResults, saveManifests when
\* generateManifest && !dryRun, process.exit(1) when result.failed > 0; an
\* exception on the way goes to handleError, which exits with 1
Complete ==
    /\ pc = "done"
    /\ LET wanted == generateManifest /\ ~dryRun
           steps  == CompletionSteps(result, wanted)
       IN  \E failAt \in 0..Len(steps), clock \in ClockReadings :
              LET r == RunSteps(steps, logs, saved, failAt)
                  reachedSave == wanted /\ (failAt = 0 \/ failAt > Len(steps) - 5)
              IN  /\ logs' = r.logs
                  /\ saved' = r.saved
                  /\ manifest' = IF reachedSave
                                 THEN Defined(build(result, result.errors, clock))
                                 ELSE manifest
                  /\ markdown' = IF wanted /\ (failAt = 0 \/ failAt > Len(steps) - 3)
                                 THEN Defined(format(build(result, result.errors, clock)))
                                 ELSE markdown
                  /\ faulted' = (faulted \/ r.threw)
                  /\ exitCode' = IF r.threw \/ result.failed > 0 THEN Defined(1)
                                 ELSE Defined(0)
    /\ pc' = "exited"
    /\ UNCHANGED <<pureVars, targetDirectory, dryRun, logLevel, logFile, fs, fs0, fsCalls,
                   scanned, operations, result, idx, attempted, generateManifest>>

\* catch (error) { handleError(error) }: an exception thrown by the scan, the
\* planning or the execution ends the process with code 1
HandleError ==
    /\ pc \in {"aborted", "threw"}
    /\ exitCode' = Defined(1)
    /\ pc' = "exited"
    /\ UNCHANGED <<pureVars, execVars, generateManifest, manifest, saved, markdown>>

NextPipe == Scan \/ Plan \/ Execute \/ ExecuteOperation \/ ExecuteReturn
SpecPipe == InitPipe /\ [][NextPipe]_vars

\* the default naming convention and one category, --output and --dry-run
\* and --no-manifest given or not
InitCmd ==
    /\ filename = <<>>
    /\ converted = <<>>
    /\ extension = <<>>
    /\ matched = Undefined
    /\ convention = [type |-> "kebab-case", lowercase |-> TRUE]
    /\ categories = <<[name |-> "images", extensions |-> {<<".", "a">>},
                       patterns |-> Undefined, targetFolder |-> Defined(<<Folder>>)]>>
    /\ targetDirectory \in {Undefined, Defined(OutputDirectory)}
    /\ dryRun \in BOOLEAN
    /\ \E lc \in PipeLoggerConfigs : logLevel = lc[1] /\ logFile = lc[2]
    /\ logs = <<>>
    /\ fs \in PipeFileSystems
    /\ fs0 = fs
    /\ fsCalls = <<>>
    /\ scanned = <<>>
    /\ operations = <<>>
    /\ result = createEmptyResult(<<>>)
    /\ idx = 0
    /\ attempted = <<>>
    /\ faulted = FALSE
    /\ generateManifest \in BOOLEAN
    /\ manifest = Undefined
    /\ saved = <<>>
    /\ markdown = Undefined
    /\ exitCode = Undefined
    /\ pc = "start"

NextCmd ==
    Scan \/ Plan \/ Execute \/ ExecuteOperation \/ ExecuteReturn \/ Complete \/ HandleError
SpecCmd == InitCmd /\ [][NextCmd]_vars

(***************************************************************************)
(* The organize command run a second time on what the first run left       *)
(***************************************************************************)
RerunNames == {<<"a", ".", "a">>, <<"a", " ", "b">>}
RerunPaths ==
    {Append(dir, n) : dir \in {BaseDirectory, Append(BaseDirectory, Folder)}, n \in RerunNames}
RerunFileSystems ==
    {[files |-> [q \in F |-> q],
      dirs  |-> UNION {Prefixes(dirname(q)) : q \in F} \cup Prefixes(BaseDirectory)] :
        F \in {G \in SUBSET RerunPaths : Cardinality(G) <= MaxFiles}}

InitRerun ==
    /\ filename = <<>>
    /\ converted = <<>>
    /\ extension = <<>>
    /\ matched = Undefined
    /\ convention \in PipeConventions
    /\ categories = <<[name |-> "images", extensions |-> {<<".", "a">>},
                       patterns |-> Undefined, targetFolder |-> Defined(<<Folder>>)]>>
    /\ targetDirectory \in {Undefined, Defined(OutputDirectory)}
    /\ dryRun = FALSE
    /\ \E lc \in PipeLoggerConfigs : logLevel = lc[1] /\ logFile = lc[2]
    /\ logs = <<>>
    /\ fs \in RerunFileSystems
    /\ fs0 = fs
    /\ fsCalls = <<>>
    /\ scanned = <<>>
    /\ operations = <<>>
    /\ result = createEmptyResult(<<>>)
    /\ idx = 0
    /\ attempted = <<>>
    /\ faulted = FALSE
    /\ CmdIdle
    /\ pc = "start"

\* the first run has returned with every operation successful (exit code 0)
\* and the command is started again, same configuration, same directory, on
\* the file system the first run left
Again ==
    /\ pc = "done"
    /\ exitCode = Undefined
    /\ result.failed = 0
    /\ result.successful = Len(operations)
    /\ exitCode' = Defined(0)
    /\ pc' = "start"
    /\ fs0' = fs
    /\ logs' = <<>>
    /\ fsCalls' = <<>>
    /\ scanned' = <<>>
    /\ operations' = <<>>
    /\ result' = createEmptyResult(<<>>)
    /\ idx' = 0
    /\ attempted' = <<>>
    /\ faulted' = FALSE
    /\ UNCHANGED <<pureVars, targetDirectory, dryRun, logLevel, logFile, fs,
                   generateManifest, manifest, saved, markdown>>

NextRerun == Scan \/ Plan \/ Execute \/ ExecuteOperation \/ ExecuteReturn \/ Again
SpecRerun == InitRerun /\ [][NextRerun]_vars

(***************************************************************************)
(* Callers of the pure functions                                           *)
(***************************************************************************)
InitNaming ==
    /\ filename \in StringsUpTo(MaxLen) \ {<<>>, <<".">>, <<".", ".">>}
    /\ convention \in Conventions
    /\ converted = <<>>
    /\ extension = <<>>
    /\ categories = <<>>
    /\ matched = Undefined
    /\ ExecIdle
    /\ CmdIdle
    /\ pc = "naming"

\* applies the convention to the file name, then to each result in turn
ApplyNamingConvention ==
    /\ pc = "naming"
    /\ Len(converted) < 2
    /\ converted' = Append(converted,
           applyNamingConvention(IF converted = <<>> THEN filename
                                 ELSE converted[Len(converted)], convention))
    /\ UNCHANGED <<filename, convention, extension, categories, matched, pc, execVars, cmdVars>>

NextNaming == ApplyNamingConvention
SpecNaming == InitNaming /\ [][NextNaming]_vars

InitCat ==
    /\ filename \in CatFilenames
    /\ extension \in CatExtensions
    /\ categories \in RuleLists(MaxRules)
    /\ convention = NoConvention
    /\ converted = <<>>
    /\ matched = Undefined
    /\ ExecIdle
    /\ CmdIdle
    /\ pc = "categorize"

Categorize ==
    /\ pc = "categorize"
    /\ matched' = categorize(extension, filename, categories)
    /\ pc' = "categorized"
    /\ UNCHANGED <<filename, convention, converted, extension, categories, execVars, cmdVars>>

NextCat == Categorize
SpecCat == InitCat /\ [][NextCat]_vars

\* the error messages execute records
ErrorMessages == {AlreadyExists, "EACCES"}

RECURSIVE ErrorsFrom(_, _, _, _)
\* the errors list execute builds when the operations of F fail, in list order
ErrorsFrom(ops, F, msg, i) ==
    IF i > Len(ops) THEN <<>>
    ELSE (IF i \in F THEN <<[file |-> ops[i].originalPath, error |-> msg[i]]>> ELSE <<>>)
             \o ErrorsFrom(ops, F, msg, i + 1)

\* the results a real run hands to the manifest generator: some operations
\* failed, each with its message, the others succeeded
ManifestResults(n) ==
    UNION {UNION {{[operations |-> ops,
                    successful |-> Len(ops) - Cardinality(F),
                    failed     |-> Cardinality(F),
                    errors     |-> ErrorsFrom(ops, F, msg, 1)] :
                       msg \in [F -> ErrorMessages]} :
                  F \in SUBSET (1..Len(ops))} :
           ops \in OpLists(n)}

InitManifest ==
    /\ filename = <<>>
    /\ convention = NoConvention
    /\ converted = <<>>
    /\ extension = <<>>
    /\ categories = <<>>
    /\ matched = Undefined
    /\ targetDirectory = Undefined
    /\ dryRun = FALSE
    /\ logLevel = "info"
    /\ logFile = FALSE
    /\ logs = <<>>
    /\ fs = [files |-> <<>>, dirs |-> {<<>>}]
    /\ fs0 = fs
    /\ fsCalls = <<>>
    /\ scanned = <<>>
    /\ result \in ManifestResults(MaxOps)
    /\ operations = result.operations
    /\ idx = 0
    /\ attempted = <<>>
    /\ faulted = FALSE
    /\ generateManifest = TRUE
    /\ manifest = Undefined
    /\ saved = <<>>
    /\ markdown = Undefined
    /\ exitCode = Undefined
    /\ pc = "executed"

\* manifestGenerator.generate(result, result.errors)
Generate ==
    /\ pc = "executed"
    /\ \E clock \in ClockReadings : manifest' = Defined(build(result, result.errors, clock))
    /\ pc' = "generated"
    /\ UNCHANGED <<pureVars, execVars, generateManifest, saved, markdown, exitCode>>

\* manifestGenerator.saveMarkdown(manifest, path): the content it writes
SaveMarkdown ==
    /\ pc = "generated"
    /\ markdown' = Defined(format(ValueOf(manifest)))
    /\ saved' = Append(saved, "manifest.md")
    /\ pc' = "formatted"
    /\ UNCHANGED <<pureVars, execVars, generateManifest, manifest, exitCode>>

NextManifest == Generate \/ SaveMarkdown
SpecManifest == InitManifest /\ [][NextManifest]_vars

(***************************************************************************)
(* Properties                                                              *)
(***************************************************************************)
RealRunOver == ~dryRun /\ pc \in {"done", "threw"}

\* C1: in real mode execute attempts every operation of the list exactly
\* once, in list order, whatever failed before, and returns after the last one
C1_AttemptsEveryOperation ==
    RealRunOver =>
        /\ pc = "done"
        /\ attempted = [i \in 1..Len(operations) |-> i]

\* C2: the counts add up: successful + failed is the number of operations
\* when a real run returns and the number of operations processed so far
\* while it runs; a dry run returns successful = number of operations, failed = 0
C2_CountsAddUp ==
    /\ (pc = "done" /\ ~dryRun) => result.successful + result.failed = Len(operations)
    /\ (pc = "done" /\ dryRun) => result.successful = Len(operations) /\ result.failed = 0
    /\ (pc = "executing") => result.successful + result.failed = idx - 1

\* C3: a dry run makes no FileSystemUtils call and leaves the file system as
\* it was; the result it returns has successful = number of operations,
\* failed = 0 and no errors, whatever the operations are
C3_DryRunPurity ==
    dryRun =>
        /\ fs = fs0
        /\ fsCalls = <<>>
        /\ pc = "done" => /\ result.successful = Len(operations)
                          /\ result.failed = 0
                          /\ result.errors = <<>>

\* a dry run has returned for a list whose first operation has its destination
\* taken and whose second has no source
C3_Witness ==
    /\ dryRun /\ pc = "done" /\ Len(operations) = 2
    /\ existsSync(fs, operations[1].newPath)
    /\ operations[1].newPath # operations[1].originalPath
    /\ ~existsSync(fs, operations[2].originalPath)

\* C4: in real mode an operation attempted while an entry exists at its
\* destination, the destination differing from its source, fails with the
\* "already exists" error; no rename is issued for it and the file system
\* (the entry at the destination, the source file) is left as it was
C4_NeverOverwrites ==
    [][ (/\ pc = "executing" /\ idx <= Len(operations)
         /\ existsSync(fs, operations[idx].newPath)
         /\ operations[idx].newPath # operations[idx].originalPath)
        => /\ result'.successful = result.successful
           /\ result'.failed = result.failed + 1
           /\ result'.errors = Append(result.errors,
                  [file |-> operations[idx].originalPath, error |-> AlreadyExists])
           /\ fs' = fs
           /\ \A k \in (Len(fsCalls) + 1)..Len(fsCalls') : fsCalls'[k].call # "renameSync"
      ]_vars

\* the first operation of a real run found a file at its destination: it is
\* the only error, and source and destination still hold their own content
C4_Witness ==
    /\ ~dryRun /\ pc = "executing" /\ idx = 2
    /\ result.errors = <<[file |-> operations[1].originalPath, error |-> AlreadyExists]>>
    /\ operations[1].originalPath \in DOMAIN fs.files
    /\ operations[1].newPath \in DOMAIN fs.files
    /\ fs.files[operations[1].originalPath] = operations[1].originalPath
    /\ fs.files[operations[1].newPath] = operations[1].newPath

\* the destination the planner computes for a scanned file
Destination(file) ==
    LET t == calculateTargets(file) IN join(t.targetDir, <<t.targetFilename>>)

HasOperation(file) ==
    \E i \in 1..Len(operations) : operations[i].originalPath = file.originalPath

\* operations i < j of two distinct files with one destination
Colliding(i, j) ==
    /\ i < j
    /\ operations[i].newPath = operations[j].newPath
    /\ operations[i].originalPath # operations[j].originalPath

FirstTo(i) == \A k \in 1..(i - 1) : operations[k].newPath # operations[i].newPath

\* the file of operation i is at the destination of operation i
MovedTo(i) ==
    /\ operations[i].newPath \in DOMAIN fs.files
    /\ fs.files[operations[i].newPath] = operations[i].originalPath

StaysAtSource(j) ==
    /\ operations[j].originalPath \in DOMAIN fs.files
    /\ fs.files[operations[j].originalPath] = operations[j].originalPath

FailedAlreadyExists(j) ==
    \E k \in 1..Len(result.errors) :
        result.errors[k] = [file |-> operations[j].originalPath, error |-> AlreadyExists]

\* the file system refused a call of operation i (EACCES)
Refused(i) ==
    \E k \in 1..Len(result.errors) :
        result.errors[k] = [file |-> operations[i].originalPath, error |-> "EACCES"]

Planned == pc \in {"planned", "executing", "done", "threw"}

\* two scanned files that are not yet at their common destination both get
\* an operation
CollidingFilesBothPlanned ==
    Planned =>
        \A a, b \in 1..Len(scanned) :
            (/\ a # b
             /\ Destination(scanned[a]) = Destination(scanned[b])
             /\ Destination(scanned[a]) # scanned[a].originalPath
             /\ Destination(scanned[b]) # scanned[b].originalPath)
            => HasOperation(scanned[a]) /\ HasOperation(scanned[b])

C6_NamingIdempotent ==
    Len(converted) = 2 => converted[2] = converted[1]

\* the rule satisfies both conditions for the inputs of categorize
Satisfies(rule) ==
    /\ extension \in rule.extensions
    /\ \/ rule.patterns = Undefined
       \/ \E pat \in ValueOf(rule.patterns) : GlobMatch(filename, pat)

\* C7: categorize returns the first rule, in list order, whose extension set
\* holds the extension and which declares no patterns or has a pattern that
\* matches the file name; undefined when there is none
C7_FirstMatchingRule ==
    pc = "categorized" =>
        LET S == {i \in 1..Len(categories) : Satisfies(categories[i])}
        IN  IF S = {} THEN matched = Undefined
            ELSE matched = Defined(categories[CHOOSE i \in S : \A j \in S : i <= j])

\* the first rule has the extension but no matching pattern, and the second
\* rule is returned
C7_Witness ==
    /\ pc = "categorized" /\ Len(categories) = 2
    /\ extension \in categories[1].extensions
    /\ ~Satisfies(categories[1])
    /\ Satisfies(categories[2])
    /\ matched = Defined(categories[2])

\* the category list with every extension entry in lower case
LowerCaseEntries(cats) ==
    [i \in 1..Len(cats) |-> [cats[i] EXCEPT !.extensions = {toLowerCase(e) : e \in @}]]

SameRule(m1, m2) ==
    /\ (m1 = Undefined) = (m2 = Undefined)
    /\ m1 # Undefined =>
          /\ ValueOf(m1).name = ValueOf(m2).name
          /\ ValueOf(m1).patterns = ValueOf(m2).patterns
          /\ ValueOf(m1).targetFolder = ValueOf(m2).targetFolder

\* C8: the result of categorize does not depend on the case in which the
\* extension passed in, or the extension entries of the rules, are written
C8_CaseInsensitiveExtensions ==
    pc = "categorized" =>
        /\ \A e \in CatExtensions :
              toLowerCase(e) = toLowerCase(extension) =>
                  categorize(e, filename, categories) = matched
        /\ SameRule(matched, categorize(toLowerCase(extension), filename,
                                        LowerCaseEntries(categories)))

\* C9: a scanned file whose computed destination is its own (normalized) path
\* gets no operation, and no planned operation has its destination equal to
\* its source
C9_NoOpInvariant ==
    (Planned \/ (pc = "exit" /\ scanned # <<>>)) =>
        /\ \A k \in 1..Len(scanned) :
              normalize(Destination(scanned[k])) = normalize(scanned[k].originalPath)
                  => ~HasOperation(scanned[k])
        /\ \A i \in 1..Len(operations) :
              operations[i].newPath # operations[i].originalPath

\* planned: a categorized file already in place got no operation while
\* another file got one
C9_Witness ==
    /\ pc = "planned" /\ Len(scanned) = 2 /\ Len(operations) = 1
    /\ \E k \in 1..2 :
          /\ scanned[k].targetFolder # Undefined
          /\ Destination(scanned[k]) = scanned[k].originalPath
          /\ ~HasOperation(scanned[k])

\* C10: the type of a planned operation tells what changes between source
\* and destination: move-rename when directory and file name both differ,
\* move when only the directory differs, rename when only the file name does
C10_TypeByActualChange ==
    \A i \in 1..Len(operations) :
        LET op          == operations[i]
            dirChanged  == dirname(op.newPath) # dirname(op.originalPath)
            nameChanged == basename(op.newPath) # basename(op.originalPath)
        IN  /\ (op.type = "move-rename") = (dirChanged /\ nameChanged)
            /\ (op.type = "move") = (dirChanged /\ ~nameChanged)
            /\ (op.type = "rename") = (~dirChanged /\ nameChanged)

\* the failures recorded for the source path of an operation
FailuresOf(op) == {k \in 1..Len(result.errors) : result.errors[k].file = op.originalPath}

\* C12: an entry is 'failed', with the error message recorded (first) for its
\* operation's source path, exactly when that path appears in the failures
\* list; otherwise it is 'success' and carries no error
C12_StatusFromFailures ==
    pc = "generated" =>
        \A i \in 1..Len(ValueOf(manifest).entries) :
            LET e == ValueOf(manifest).entries[i]
                K == FailuresOf(e.operation)
            IN  /\ (e.status = "failed") = (K # {})
                /\ (e.status = "success") = (K = {})
                /\ K = {} => e.error = Undefined
                /\ K # {} => e.error = Defined(result.errors[CHOOSE k \in K :
                                                                \A j \in K : k <= j].error)

\* of two operations one failed: exactly one entry is 'failed' and carries
\* the recorded message, the other is 'success' without error
C12_Witness ==
    /\ pc = "generated" /\ Len(operations) = 2 /\ Len(result.errors) = 1
    /\ \E i, j \in 1..2 :
           /\ i # j
           /\ ValueOf(manifest).entries[i].status = "failed"
           /\ ValueOf(manifest).entries[i].error = Defined(result.errors[1].error)
           /\ ValueOf(manifest).entries[j].status = "success"
           /\ ValueOf(manifest).entries[j].error = Undefined

\* C19: every entry of a built manifest carries the manifest's generatedAt
\* as its timestamp (so all entries carry the same one)
C19_SharedTimestamp ==
    pc = "generated" =>
        \A i \in 1..Len(ValueOf(manifest).entries) :
            ValueOf(manifest).entries[i].timestamp = ValueOf(manifest).generatedAt

\* a manifest of two entries, both stamped with generatedAt
C19_Witness ==
    /\ pc = "generated"
    /\ Len(ValueOf(manifest).entries) = 2
    /\ ValueOf(manifest).entries[1].timestamp = ValueOf(manifest).generatedAt
    /\ ValueOf(manifest).entries[2].timestamp = ValueOf(manifest).generatedAt

\* C20: the entries are the operations of the result, one each, in the same
\* order
C20_EntriesPreserveOperations ==
    pc = "generated" =>
        /\ Len(ValueOf(manifest).entries) = Len(result.operations)
        /\ \A i \in 1..Len(result.operations) :
               ValueOf(manifest).entries[i].operation = result.operations[i]

\* two different operations, the first succeeded and the second failed, are
\* the operations of the two entries in that order
C20_Witness ==
    /\ pc = "generated" /\ Len(result.operations) = 2
    /\ result.operations[1] # result.operations[2]
    /\ Len(ValueOf(manifest).entries) = 2
    /\ ValueOf(manifest).entries[1].operation = result.operations[1]
    /\ ValueOf(manifest).entries[1].status = "success"
    /\ ValueOf(manifest).entries[2].operation = result.operations[2]
    /\ ValueOf(manifest).entries[2].status = "failed"

\* C11: a built manifest has totalOperations = successful + failed and
\* totalOperations = number of entries
C11_ManifestCounts ==
    manifest # Undefined =>
        /\ ValueOf(manifest).totalOperations
              = ValueOf(manifest).successful + ValueOf(manifest).failed
        /\ ValueOf(manifest).totalOperations = Len(ValueOf(manifest).entries)

\* C13: when the process has exited after a real run in which an operation
\* failed, the exit code is 1, every operation of the batch was attempted
\* and, if a manifest is wanted, both manifest files were written from a
\* manifest that lists every operation
C13_FailureReportedAfterManifests ==
    (pc = "exited" /\ ~dryRun /\ result.failed > 0) =>
        /\ exitCode = Defined(1)
        /\ attempted = [i \in 1..Len(operations) |-> i]
        /\ generateManifest =>
              /\ saved = <<"manifest.json", "manifest.md">>
              /\ manifest # Undefined
              /\ Len(ValueOf(manifest).entries) = Len(operations)

\* the operation planned for a scanned file, Undefined when there is none
OperationOf(file) ==
    LET S == {i \in 1..Len(operations) : operations[i].originalPath = file.originalPath}
    IN  IF S = {} THEN Undefined ELSE Defined(operations[CHOOSE i \in S : TRUE])

\* the target directory the specification gives a scanned file
SpecifiedDirectory(file) ==
    IF file.targetFolder # Undefined
    THEN IF targetDirectory # Undefined
         THEN join(ValueOf(targetDirectory), ValueOf(file.targetFolder))
         ELSE join(BaseDirectory, ValueOf(file.targetFolder))
    ELSE dirname(file.originalPath)

SpecifiedFilename(file) ==
    IF needsRename(file.filename, convention)
    THEN applyNamingConvention(file.filename, convention)
    ELSE file.filename

\* C14: the destination planned for a file is targetDirectory/targetFolder
\* when the file has a targetFolder and targetDirectory is set,
\* baseDirectory/targetFolder when it has one and targetDirectory is not set,
\* its own directory when it has none, joined with the canonical name when the
\* file needs a rename and with its own name otherwise; a file without
\* operation is already there
C14_TargetsByConfiguration ==
    pc \in {"planned", "exit"} =>
        \A k \in 1..Len(scanned) :
            LET file == scanned[k]
                dest == join(SpecifiedDirectory(file), <<SpecifiedFilename(file)>>)
                op   == OperationOf(file)
            IN  IF op # Undefined THEN ValueOf(op).newPath = dest
                ELSE dest = file.originalPath

\* the sequence files in the order given by the permutation
Permuted(files, order) == [i \in 1..Len(files) |-> files[order[i]]]

Range(seq) == {seq[i] : i \in 1..Len(seq)}

\* C15: plan emits at most one operation per file, for the files in their
\* input order, and yields the same set of operations for every permutation
\* of the file list
C15_OrderIndependentPlan ==
    pc = "planned" =>
        /\ \A i, j \in 1..Len(operations) :
               i < j => \E a, b \in 1..Len(scanned) :
                           /\ a < b
                           /\ operations[i].originalPath = scanned[a].originalPath
                           /\ operations[j].originalPath = scanned[b].originalPath
        /\ \A k \in 1..Len(scanned) :
               Cardinality({i \in 1..Len(operations) :
                               operations[i].originalPath = scanned[k].originalPath}) <= 1
        /\ \A order \in Orderings(1..Len(scanned)) :
               Range(plan(Permuted(scanned, order))) = Range(operations)

\* two files were planned, and planning them in the other order gives the
\* same two operations the other way round
C15_Witness ==
    /\ pc = "planned" /\ Len(scanned) = 2 /\ Len(operations) = 2
    /\ operations[1] # operations[2]
    /\ plan(<<scanned[2], scanned[1]>>) = <<operations[2], operations[1]>>

\* the last dot-suffix of a file name: from its last dot on, a dot that leads
\* the name not counting; empty when there is none
Suffix(f) ==
    LET D == {i \in 2..Len(f) : f[i] = "."}
    IN  IF D = {} THEN <<>> ELSE SubSeq(f, CHOOSE i \in D : \A j \in D : j <= i, Len(f))

Stem(f) == SubSeq(f, 1, Len(f) - Len(Suffix(f)))

\* the transform of a stem under a convention
Transform(stem, c) ==
    LET t == CASE c.type = "kebab-case" -> toKebabCase(stem)
               [] c.type = "snake_case" -> toSnakeCase(stem)
               [] c.type = "camelCase"  -> toCamelCase(stem)
               [] c.type = "PascalCase" -> toPascalCase(stem)
    IN  IF c.lowercase /\ c.type \in {"kebab-case", "snake_case"} THEN toLowerCase(t) ELSE t

C17_LowercaseFlag ==
    Len(converted) >= 1 =>
        /\ convention.type \in {"camelCase", "PascalCase"} =>
               converted[1] = applyNamingConvention(filename,
                                  [convention EXCEPT !.lowercase = ~@])
        /\ (convention.type \in {"kebab-case", "snake_case"} /\ convention.lowercase) =>
               converted[1] = toLowerCase(converted[1])

\* 'a b' under camelCase with the lowercase flag set became 'aB'
C17_Witness ==
    /\ filename = <<"a", " ", "b">>
    /\ convention = [type |-> "camelCase", lowercase |-> TRUE]
    /\ Len(converted) >= 1
    /\ converted[1] = <<"a", "B">>

\* C18: the camelCase transform of a stem never starts with an upper-case
\* letter, and the PascalCase transform never starts with a lower-case one
C18_FirstCharacterCase ==
    Len(converted) >= 1 =>
        LET stem == Stem(filename)
        IN  /\ (convention.type = "camelCase" /\ toCamelCase(stem) # <<>>) =>
                   /\ Head(toCamelCase(stem)) \notin Upper
                   /\ Head(converted[1]) \notin Upper
            /\ (convention.type = "PascalCase" /\ toPascalCase(stem) # <<>>) =>
                   /\ Head(toPascalCase(stem)) \notin Lower
                   /\ Head(converted[1]) \notin Lower


\* the positions of the entry headings in the rendered lines
Headings(md) == {k \in 1..Len(md) : md[k].kind = "heading"}
\* the lines of the i-th block: from its heading up to the next one
Block(md, i) ==
    LET start == CHOOSE k \in Headings(md) :
                     Cardinality({j \in Headings(md) : j <= k}) = i
        later == {k \in Headings(md) : k > start}
        stop  == IF later = {} THEN Len(md)
                 ELSE (CHOOSE k \in later : \A j \in later : k <= j) - 1
    IN  SubSeq(md, start, stop)
HeaderKinds == <<"title", "generated", "total", "successful", "failed">>

\* C21: format renders the five header lines, then one block per manifest
\* entry in entry order, whose marker is the check mark when the status is
\* success and the ballot x otherwise and which has an error line exactly
\* when the entry has an error; with zero entries only the header is rendered
C21_OneBlockPerEntry ==
    pc = "formatted" =>
        LET m  == ValueOf(manifest)
            md == ValueOf(markdown)
        IN  /\ markdown # Undefined
            /\ Len(md) >= 5
            /\ \A k \in 1..5 : md[k].kind = HeaderKinds[k]
            /\ Len(m.entries) = 0 => Len(md) = 5
            /\ Len(m.entries) > 0 => md[6].kind = "operations"
            /\ Cardinality(Headings(md)) = Len(m.entries)
            /\ \A i \in 1..Len(m.entries) :
                  LET b == Block(md, i)
                      e == m.entries[i]
                  IN  /\ b[1].marker = (IF e.status = "success" THEN "U+2713" ELSE "U+2717")
                      /\ b[2].kind = "from" /\ b[2].text = <<e.operation.originalPath>>
                      /\ b[3].kind = "to" /\ b[3].text = <<e.operation.newPath>>
                      /\ (\E k \in 1..Len(b) : b[k].kind = "error") <=> (e.error # Undefined)
                      /\ Cardinality({k \in 1..Len(b) : b[k].kind = "error"}) <= 1

\* two entries rendered, the first failed with its error line, the second
\* succeeded without one
C21_Witness ==
    /\ pc = "formatted"
    /\ Len(ValueOf(manifest).entries) = 2
    /\ ValueOf(manifest).entries[1].status = "failed"
    /\ ValueOf(manifest).entries[2].status = "success"
    /\ Len(ValueOf(markdown)) = 17

\* no entries: the header alone
C21_WitnessEmpty ==
    pc = "formatted" /\ ValueOf(manifest).entries = <<>> /\ Len(ValueOf(markdown)) = 5

\* the step of executeReal that handles the operation at idx
StepOf(op) == pc = "executing" /\ idx <= Len(operations) /\ operations[idx] = op /\ idx' = idx + 1
\* the FileSystemUtils calls made by the step
StepCalls == SubSeq(fsCalls', Len(fsCalls) + 1, Len(fsCalls'))
\* the errors recorded by the step
StepErrors == SubSeq(result'.errors, Len(result.errors) + 1, Len(result'.errors))

\* C22: in real mode an operation whose destination is its own source, a
\* file that exists, is not rejected by the already-exists guard: the rename
\* is issued with both arguments equal, the operation is counted successful
\* and the file system is left as it was
C22_SamePathNotRejected ==
    [][\A op \in ExecOps :
          (StepOf(op) /\ op.newPath = op.originalPath /\ op.newPath \in DOMAIN fs.files) =>
              /\ StepCalls = <<[call |-> "mkdirSync", args |-> <<dirname(op.newPath)>>],
                               [call |-> "existsSync", args |-> <<op.newPath>>],
                               [call |-> "renameSync", args |-> <<op.newPath, op.newPath>>]>>
              /\ result'.successful = result.successful + 1
              /\ \A k \in 1..Len(StepErrors) : StepErrors[k].error # AlreadyExists
              /\ fs' = fs]_vars

\* an operation onto its own existing source has been executed and counted
C22_Witness ==
    /\ RealRunOver
    /\ ~faulted
    /\ \E i \in 1..Len(attempted) :
          /\ operations[i].newPath = operations[i].originalPath
          /\ operations[i].newPath \in DOMAIN fs0.files
    /\ result.successful = Len(operations)
    /\ \E k \in 1..Len(fsCalls) :
          fsCalls[k].call = "renameSync" /\ fsCalls[k].args[1] = fsCalls[k].args[2]

\* the operations have pairwise distinct sources, each a file of the file
\* system execute started from
DistinctExistingSources ==
    /\ \A i, j \in 1..Len(operations) :
          operations[i].originalPath = operations[j].originalPath => i = j
    /\ \A i \in 1..Len(operations) : operations[i].originalPath \in DOMAIN fs0.files
RecordedInErrors(op) ==
    \E k \in 1..Len(result.errors) : result.errors[k].file = op.originalPath
\* the file the operation was planned for is at path p
HoldsFileOf(op, p) == p \in DOMAIN fs.files /\ fs.files[p] = fs0.files[op.originalPath]

\* C23: file conservation in real mode, from a file system where every
\* source exists and the sources are pairwise distinct: when execute has
\* returned, the file of every operation counted successful is at its
\* destination and (unless that is its source) no longer at its source, the
\* file of every operation recorded in errors is still at its source, and
\* the number of files is unchanged
C23_FileConservation ==
    (~dryRun /\ pc = "done" /\ DistinctExistingSources) =>
        /\ \A i \in 1..Len(operations) :
              LET op == operations[i]
              IN  /\ ~RecordedInErrors(op) =>
                        /\ HoldsFileOf(op, op.newPath)
                        /\ op.newPath # op.originalPath => ~HoldsFileOf(op, op.originalPath)
                  /\ RecordedInErrors(op) => HoldsFileOf(op, op.originalPath)
        /\ Cardinality(DOMAIN fs.files) = Cardinality(DOMAIN fs0.files)

DistinctSources ==
    \A i, j \in 1..Len(operations) :
        operations[i].originalPath = operations[j].originalPath => i = j

\* C24: the counts of a real-mode execute do not depend on the order of the
\* operations: for a list with pairwise distinct sources, every permutation
\* of it run from the same initial file system gives the same successful and
\* failed as the run that was made
C24_CountsOrderIndependent ==
    (~dryRun /\ pc = "done" /\ ~faulted /\ DistinctSources) =>
        \A order \in Orderings(1..Len(operations)) :
            LET other == executeReal(fs0, Permuted(operations, order),
                                     createEmptyResult(operations), <<>>).result
            IN  /\ other.successful = result.successful
                /\ other.failed = result.failed

\* the step's operation failed in performOperation: mkdirSync threw, the
\* destination exists, or renameSync threw
StepFailed ==
    \E k \in 1..Len(StepErrors) : StepErrors[k].error # "log append failed"

\* C25 as claimed: a failed operation leaves the file system exactly as it
\* was before the operation was attempted, no directory created, no file moved
C25_FailureLeavesNoTrace ==
    [][\A op \in ExecOps : (StepOf(op) /\ StepFailed) => fs' = fs]_vars

\* C25: a failed operation moves no file and removes nothing; the only
\* change it can leave is the destination's parent directory, with its
\* missing ancestors, created before the guard and the rename; an operation
\* rejected because its destination exists changes nothing
C25_FailureMovesNoFile ==
    [][\A op \in ExecOps :
          (StepOf(op) /\ StepFailed) =>
              /\ fs'.files = fs.files
              /\ fs.dirs \subseteq fs'.dirs
              /\ fs'.dirs \ fs.dirs \subseteq Prefixes(dirname(op.newPath))
              /\ (\E k \in 1..Len(StepErrors) : StepErrors[k].error = AlreadyExists)
                     => fs' = fs]_vars

\* an operation failed in renameSync after its destination directory had
\* been created: the files are where they were, the directory is new
C25_Witness ==
    /\ RealRunOver
    /\ Len(operations) = 1
    /\ Len(result.errors) = 1
    /\ result.errors[1].error \in {"ENOENT", "EACCES"}
    /\ fs.files = fs0.files
    /\ ExecDirT \in fs.dirs \ fs0.dirs

\* the step's renameSync returned: the file system holds what a successful
\* rename of the operation leaves
RenameSucceeded(op) ==
    LET r == renameSync(mkdirSync(fs, dirname(op.newPath), "none").fs,
                        op.originalPath, op.newPath, "none")
    IN  /\ StepCalls # <<>>
        /\ StepCalls[Len(StepCalls)].call = "renameSync"
        /\ ~r.threw
        /\ fs' = r.fs

\* C26: whatever the logger does, every operation of a real run increments
\* exactly one of successful and failed, an operation whose rename succeeded
\* is not recorded in errors, and the batch is not aborted
C26_CountedOnceWhateverLoggerDoes ==
    [][\A op \in ExecOps :
          StepOf(op) =>
              /\ \/ /\ result'.successful = result.successful + 1
                    /\ result'.failed = result.failed
                 \/ /\ result'.successful = result.successful
                    /\ result'.failed = result.failed + 1
              /\ RenameSucceeded(op) => StepErrors = <<>>
              /\ pc' # "threw"]_vars

\* the ways of assigning each error, in order, to an attempted operation
\* with that source path
ErrorAssignments ==
    {g \in [1..Len(result.errors) -> 1..Len(operations)] :
        /\ \A k \in 1..Len(result.errors) :
              operations[g[k]].originalPath = result.errors[k].file
        /\ \A k, l \in 1..Len(result.errors) : k < l => g[k] < g[l]}

\* C27: in every result execute returns, in real mode errors.length equals
\* failed, the errors are in the order in which their operations were
\* attempted, and each names the source of an operation that did not
\* succeed (the operations counted successful are others); in dry-run
\* errors is empty
C27_ErrorsMatchFailures ==
    pc = "done" =>
        IF dryRun THEN result.errors = <<>>
        ELSE /\ Len(result.errors) = result.failed
             /\ ErrorAssignments # {}
             /\ result.successful <= Len(operations) - Len(result.errors)

EntriesWithStatus(m, status) == {i \in 1..Len(m.entries) : m.entries[i].status = status}

\* C28: in the manifest built from a result execute returned, the number of
\* entries with status failed equals manifest.failed and the number with
\* status success equals manifest.successful, also when two operations of
\* the list share their source path
C28_EntryStatusCounts ==
    (~dryRun /\ pc = "done" /\ ~faulted) =>
        \A clock \in ClockReadings :
            LET m == build(result, result.errors, clock)
            IN  /\ Cardinality(EntriesWithStatus(m, "failed")) = m.failed
                /\ Cardinality(EntriesWithStatus(m, "success")) = m.successful

\* C29: after a real-mode run in which every planned operation succeeded,
\* running again with the same configuration plans no operation: the second
\* run ends at 'All files are already organized' (or earlier)
C29_RerunPlansNothing ==
    exitCode # Undefined => (operations = <<>> /\ pc \notin {"planned", "executing", "done"})

\* C30: the category and the targetFolder of every record the scanner made
\* are those of categorize evaluated on the record's own filename (the
\* basename) and lower-cased extension, for files in subdirectories too
C30_CategoryOfBasename ==
    \A i \in 1..Len(scanned) :
        LET file == scanned[i]
            rule == categorize(file.extension, file.filename, categories)
        IN  /\ file.category = (IF rule = Undefined THEN Undefined
                                ELSE Defined(ValueOf(rule).name))
            /\ file.targetFolder = (IF rule = Undefined THEN Undefined
                                    ELSE ValueOf(rule).targetFolder)
====
